---- MODULE Spec2Model ----
(***************************************************************************)
(* Model of MediaSlideshowViewer (slideshow.py): the playback session      *)
(* controller that walks a catalog of media files, keeps one GStreamer     *)
(* pipeline at a time, and advances on a timer (images), on end-of-stream  *)
(* (videos) or on a playback error.                                        *)
(*                                                                         *)
(* The GTK main loop is one thread: pc is its position.  pc = "idle" means *)
(* the loop is waiting to dispatch a source (idle callback, timer, bus     *)
(* message, key press); every other value is a position inside the handler *)
(* being run.  GStreamer streaming threads run concurrently and post       *)
(* messages on the bus of their pipeline (PostError, PostEos).             *)
(***************************************************************************)
EXTENDS Integers, Sequences, FiniteSets, TLC

\* Bounds of the model.
MaxItems == 2
MaxIds == 2

\* --interval default (seconds an image is shown).
image_interval == 5

Kinds == {"image", "video"}

\* What the media engine does with a file:
\*   ok          the pipeline starts and plays
\*   build_fail  the pipeline cannot be built (parse_launch raises / playbin is None)
\*   start_fail  set_state(PLAYING) returns FAILURE
\*   play_err    the pipeline starts, then posts an error message while playing
Behaviours == {"ok", "build_fail", "start_fail", "play_err"}

MediaItem == [kind : Kinds, beh : Behaviours]

Catalogs == UNION {[1..n -> MediaItem] : n \in 0..MaxItems}

Ids == 1..MaxIds

NoMsg == [pid |-> 0, type |-> "none"]

\* Percentages a buffering message carries: below 100, and 100.
Percents == {50, 100}

VARIABLES
    media_files,    \* self.media_files: the catalog, fixed after construction
    current_index,  \* self.current_index
    pipeline,       \* self.pipeline: 0 is None, else the id of the pipeline object
    bus,            \* self.bus: 0 is None, else the id of the pipeline whose bus it is
    is_video,       \* self.is_video
    timeout_id,     \* self.timeout_id: 0 is None, else a GLib source id
    attempts,       \* local of load_current_media
    cur_msg,        \* the message argument of the bus handler being run
    pc,             \* position of the main-loop thread
    caller,         \* who called cleanup_pipeline: "create" or "destroy"
    handler,        \* the callback the main loop is running
    firing,         \* id of the timer source being dispatched, 0 if none
    sources,        \* GLib: the armed timer sources, [id, secs]
    watches,        \* GLib: ids of the buses that have a signal watch attached
    idle_init,      \* GLib: the idle callback initialize_media is pending
    mainloop,       \* "notstarted", "running" or "quit"
    destroyed,      \* the window has been destroyed and on_destroy has run
    pstate,         \* GStreamer: state of each pipeline object ("FREE": no such object)
    pfile,          \* GStreamer: catalog index of the file a pipeline object plays
    busq,           \* GStreamer: messages queued on the buses, [pid, type]
    idle_wh,        \* GLib: pending idle callbacks set_window_handle(message), by the
                    \* pipeline of message.src; 0 stands for a pipeline released since
    xid_on,         \* GStreamer: pipelines whose sink has been given the window handle
    idx0,           \* history: current_index when the running handler was dispatched
    cmCalls,        \* history: change_media invocations made by the running handler
    tried,          \* history: indexes tried by the running/last load_current_media
    window          \* history: current_index at start and after the last change_media calls

vars == <<media_files, current_index, pipeline, bus, is_video, timeout_id, attempts,
          cur_msg, pc, caller, handler, firing, sources, watches, idle_init, mainloop,
          destroyed, pstate, pfile, busq, idle_wh, xid_on, idx0, cmCalls, tried,
          window>>

N == Len(media_files)

is_video_file(item) == item.kind = "video"

RemoveSource(S, id) == {s \in S : s.id # id}

\* An id no live object, queued message, message being handled, pending callback,
\* armed or firing source, or stored handle uses.
IsFree(i) ==
    /\ pstate[i] = "FREE"
    /\ i \notin watches
    /\ \A m \in busq : m.pid # i
    /\ \A s \in sources : s.id # i
    /\ timeout_id # i
    /\ firing # i
    /\ pipeline # i
    /\ bus # i
    /\ cur_msg.pid # i
    /\ i \notin idle_wh
    /\ i \notin xid_on

FreeIds == {i \in Ids : IsFree(i)}

FreshId == CHOOSE i \in FreeIds : \A j \in FreeIds : i <= j

Alive == {i \in Ids : pstate[i] # "FREE"}

Init ==
    /\ media_files \in Catalogs
    /\ current_index = 0
    /\ pipeline = 0
    /\ bus = 0
    /\ is_video = FALSE
    /\ timeout_id = 0
    /\ attempts = 0
    /\ cur_msg = NoMsg
    /\ pc = "ctor"
    /\ caller = "none"
    /\ handler = "ctor"
    /\ firing = 0
    /\ sources = {}
    /\ watches = {}
    /\ idle_init = FALSE
    /\ mainloop = "notstarted"
    /\ destroyed = FALSE
    /\ pstate = [i \in Ids |-> "FREE"]
    /\ pfile = [i \in Ids |-> 0]
    /\ busq = {}
    /\ idle_wh = {}
    /\ xid_on = {}
    /\ idx0 = 0
    /\ cmCalls = 0
    /\ tried = <<>>
    /\ window = <<0>>

----
\* __init__: an empty catalog destroys the window and returns; otherwise
\* initialize_media is scheduled as an idle callback.
Construct ==
    /\ pc = "ctor"
    /\ IF media_files = <<>>
       THEN /\ pc' = "od_timer"
            /\ UNCHANGED idle_init
       ELSE /\ pc' = "ret"
            /\ idle_init' = TRUE
    /\ UNCHANGED <<idle_wh, xid_on, media_files, current_index, pipeline, bus, is_video, timeout_id,
                   attempts, cur_msg, caller, handler, firing, sources, watches,
                   mainloop, destroyed, pstate, pfile, busq, idx0, cmCalls, tried, window>>

\* main: Gtk.main() starts the loop.
GtkMain ==
    /\ pc = "main"
    /\ pc' = "idle"
    /\ mainloop' = "running"
    /\ UNCHANGED <<idle_wh, xid_on, media_files, current_index, pipeline, bus, is_video, timeout_id,
                   attempts, cur_msg, caller, handler, firing, sources, watches,
                   idle_init, destroyed, pstate, pfile, busq, idx0, cmCalls, tried, window>>

Dispatching == pc = "idle" /\ mainloop = "running"

\* The main loop runs the idle callback initialize_media, which calls load_current_media.
InitializeMedia ==
    /\ Dispatching
    /\ idle_init
    /\ idle_init' = FALSE
    /\ handler' = "init"
    /\ pc' = "lcm"
    /\ idx0' = current_index
    /\ cmCalls' = 0
    /\ UNCHANGED <<idle_wh, xid_on, media_files, current_index, pipeline, bus, is_video, timeout_id,
                   attempts, cur_msg, caller, firing, sources, watches, mainloop,
                   destroyed, pstate, pfile, busq, tried, window>>

\* An armed advance timer expires: the main loop calls change_media.
TimerFire ==
    /\ Dispatching
    /\ \E s \in sources :
        /\ firing' = s.id
        /\ handler' = "timer"
        /\ pc' = "cm"
    /\ idx0' = current_index
    /\ cmCalls' = 0
    /\ UNCHANGED <<idle_wh, xid_on, media_files, current_index, pipeline, bus, is_video, timeout_id,
                   attempts, cur_msg, caller, sources, watches, idle_init, mainloop,
                   destroyed, pstate, pfile, busq, tried, window>>

\* The signal watch of a bus takes a queued message and emits message::error,
\* message::eos, or, for a buffering message, message alone (on_message passes on
\* errors and end-of-stream).
DispatchMessage ==
    /\ Dispatching
    /\ \E m \in busq :
        /\ m.pid \in watches
        /\ busq' = busq \ {m}
        /\ cur_msg' = m
        /\ handler' = m.type
        /\ pc' = CASE m.type = "error" -> "on_error"
                   [] m.type = "eos" -> "on_eos"
                   [] OTHER -> "on_message"
    /\ idx0' = current_index
    /\ cmCalls' = 0
    /\ UNCHANGED <<idle_wh, xid_on, media_files, current_index, pipeline, bus, is_video, timeout_id,
                   attempts, caller, firing, sources, watches, idle_init, mainloop,
                   destroyed, pstate, pfile, tried, window>>

\* on_key_press with Escape (or the window being closed): self.destroy() runs on_destroy.
KeyPressEscape ==
    /\ Dispatching
    /\ ~destroyed
    /\ handler' = "close"
    /\ pc' = "od_timer"
    /\ idx0' = current_index
    /\ cmCalls' = 0
    /\ UNCHANGED <<idle_wh, xid_on, media_files, current_index, pipeline, bus, is_video, timeout_id,
                   attempts, cur_msg, caller, firing, sources, watches, idle_init,
                   mainloop, destroyed, pstate, pfile, busq, tried, window>>

on_error ==
    /\ pc = "on_error"
    /\ pc' = "cm"
    /\ UNCHANGED <<idle_wh, xid_on, media_files, current_index, pipeline, bus, is_video, timeout_id,
                   attempts, cur_msg, caller, handler, firing, sources, watches,
                   idle_init, mainloop, destroyed, pstate, pfile, busq, idx0, cmCalls,
                   tried, window>>

\* Variant: the end-of-stream advances whatever is shown.
on_eos_Always ==
    /\ pc = "on_eos"
    /\ pc' = "cm"
    /\ UNCHANGED <<idle_wh, xid_on, media_files, current_index, pipeline, bus, is_video,
                   timeout_id, attempts, cur_msg, caller, handler, firing, sources,
                   watches, idle_init, mainloop, destroyed, pstate, pfile, busq, idx0,
                   cmCalls, tried, window>>

on_eos ==
    /\ pc = "on_eos"
    /\ pc' = IF is_video THEN "cm" ELSE "ret"
    /\ UNCHANGED <<idle_wh, xid_on, media_files, current_index, pipeline, bus, is_video, timeout_id,
                   attempts, cur_msg, caller, handler, firing, sources, watches,
                   idle_init, mainloop, destroyed, pstate, pfile, busq, idx0, cmCalls,
                   tried, window>>

\* Variant: the test on the percentage is inverted.
on_message_Inverted ==
    /\ pc = "on_message"
    /\ pstate' = IF pipeline = 0 THEN pstate
                 ELSE [pstate EXCEPT ![pipeline] =
                          IF cur_msg.percent < 100 THEN "PLAYING" ELSE "PAUSED"]
    /\ pc' = "ret"
    /\ UNCHANGED <<idle_wh, xid_on, media_files, current_index, pipeline, bus, is_video,
                   timeout_id, attempts, cur_msg, caller, handler, firing, sources,
                   watches, idle_init, mainloop, destroyed, pfile, busq, idx0, cmCalls,
                   tried, window>>

\* on_message for a buffering message: below 100 percent self.pipeline is paused,
\* at 100 it is set playing.
on_message ==
    /\ pc = "on_message"
    /\ pstate' = IF pipeline = 0 THEN pstate
                 ELSE [pstate EXCEPT ![pipeline] =
                          IF cur_msg.percent < 100 THEN "PAUSED" ELSE "PLAYING"]
    /\ pc' = "ret"
    /\ UNCHANGED <<idle_wh, xid_on, media_files, current_index, pipeline, bus, is_video,
                   timeout_id, attempts, cur_msg, caller, handler, firing, sources,
                   watches, idle_init, mainloop, destroyed, pfile, busq, idx0, cmCalls,
                   tried, window>>

\* The main loop runs a pending idle callback set_window_handle(message).
DispatchWindowHandle ==
    /\ Dispatching
    /\ \E q \in idle_wh :
        /\ idle_wh' = idle_wh \ {q}
        /\ cur_msg' = [pid |-> q, type |-> "prepare-window-handle"]
    /\ handler' = "window_handle"
    /\ pc' = "swh"
    /\ idx0' = current_index
    /\ cmCalls' = 0
    /\ UNCHANGED <<xid_on, media_files, current_index, pipeline, bus, is_video,
                   timeout_id, attempts, caller, firing, sources, watches, idle_init,
                   mainloop, destroyed, pstate, pfile, busq, tried, window>>

\* set_window_handle: message.src.set_window_handle(xid), whatever has become of
\* the pipeline of message.src.
set_window_handle ==
    /\ pc = "swh"
    /\ xid_on' = IF cur_msg.pid \in Ids THEN xid_on \cup {cur_msg.pid} ELSE xid_on
    /\ pc' = "ret"
    /\ UNCHANGED <<idle_wh, media_files, current_index, pipeline, bus, is_video,
                   timeout_id, attempts, cur_msg, caller, handler, firing, sources,
                   watches, idle_init, mainloop, destroyed, pstate, pfile, busq, idx0,
                   cmCalls, tried, window>>

\* Variant: the index is not advanced.
change_media_NoAdvance ==
    /\ pc = "cm"
    /\ cmCalls' = cmCalls + 1
    /\ pc' = "lcm"
    /\ UNCHANGED <<idle_wh, xid_on, media_files, current_index, pipeline, bus, is_video,
                   timeout_id, attempts, cur_msg, caller, handler, firing, sources,
                   watches, idle_init, mainloop, destroyed, pstate, pfile, busq, idx0,
                   tried, window>>

\* Variant: the wrap-around compares with > instead of reducing modulo the length.
change_media_LateWrap ==
    /\ pc = "cm"
    /\ current_index' = IF current_index + 1 > N THEN 0 ELSE current_index + 1
    /\ cmCalls' = cmCalls + 1
    /\ pc' = "lcm"
    /\ UNCHANGED <<idle_wh, xid_on, media_files, pipeline, bus, is_video, timeout_id, attempts, cur_msg,
                   caller, handler, firing, sources, watches, idle_init, mainloop,
                   destroyed, pstate, pfile, busq, idx0, tried, window>>

\* change_media, up to the call of load_current_media.
change_media ==
    /\ pc = "cm"
    /\ current_index' = (current_index + 1) % N
    /\ cmCalls' = cmCalls + 1
    /\ pc' = "lcm"
    /\ UNCHANGED <<idle_wh, xid_on, media_files, pipeline, bus, is_video, timeout_id, attempts, cur_msg,
                   caller, handler, firing, sources, watches, idle_init, mainloop,
                   destroyed, pstate, pfile, busq, idx0, tried, window>>

\* Variant: the completion is acted on twice (change_media runs again on return).
change_media_end_Again ==
    /\ pc = "cm_end"
    /\ window' = LET w == Append(window, current_index)
                 IN  IF Len(w) > N + 1 THEN Tail(w) ELSE w
    /\ pc' = IF cmCalls < 2 THEN "cm" ELSE "ret"
    /\ UNCHANGED <<idle_wh, xid_on, media_files, current_index, pipeline, bus, is_video, timeout_id,
                   attempts, cur_msg, caller, handler, firing, sources, watches,
                   idle_init, mainloop, destroyed, pstate, pfile, busq, idx0, cmCalls,
                   tried>>

\* change_media after load_current_media has returned: queue_draw, return False.
change_media_end ==
    /\ pc = "cm_end"
    /\ window' = LET w == Append(window, current_index)
                 IN  IF Len(w) > N + 1 THEN Tail(w) ELSE w
    /\ pc' = "ret"
    /\ UNCHANGED <<idle_wh, xid_on, media_files, current_index, pipeline, bus, is_video, timeout_id,
                   attempts, cur_msg, caller, handler, firing, sources, watches,
                   idle_init, mainloop, destroyed, pstate, pfile, busq, idx0, cmCalls,
                   tried>>

\* Variant: the attempt counter is kept from the previous call.
load_current_media_NoReset ==
    /\ pc = "lcm"
    /\ tried' = <<>>
    /\ pc' = "loop"
    /\ UNCHANGED <<idle_wh, xid_on, media_files, current_index, pipeline, bus, is_video,
                   timeout_id, attempts, cur_msg, caller, handler, firing, sources,
                   watches, idle_init, mainloop, destroyed, pstate, pfile, busq, idx0,
                   cmCalls, window>>

\* load_current_media: attempts = 0.
load_current_media ==
    /\ pc = "lcm"
    /\ attempts' = 0
    /\ tried' = <<>>
    /\ pc' = "loop"
    /\ UNCHANGED <<idle_wh, xid_on, media_files, current_index, pipeline, bus, is_video, timeout_id,
                   cur_msg, caller, handler, firing, sources, watches, idle_init,
                   mainloop, destroyed, pstate, pfile, busq, idx0, cmCalls, window>>

\* Variant: the loop bound is off by one (attempts <= len).
LoopHead_OffByOne ==
    /\ pc = "loop"
    /\ IF attempts <= N
       THEN /\ pc' = "cl_timer"
            /\ caller' = "create"
            /\ tried' = Append(tried, current_index)
       ELSE /\ pc' = "lcm_end"
            /\ UNCHANGED <<idle_wh, xid_on, caller, tried>>
    /\ UNCHANGED <<idle_wh, xid_on, media_files, current_index, pipeline, bus, is_video, timeout_id,
                   attempts, cur_msg, handler, firing, sources, watches, idle_init,
                   mainloop, destroyed, pstate, pfile, busq, idx0, cmCalls, window>>

\* while attempts < len(self.media_files): ... create_pipeline(current_file),
\* whose first statement is cleanup_pipeline().
LoopHead ==
    /\ pc = "loop"
    /\ IF attempts < N
       THEN /\ pc' = "cl_timer"
            /\ caller' = "create"
            /\ tried' = Append(tried, current_index)
       ELSE /\ pc' = "lcm_end"
            /\ UNCHANGED <<idle_wh, xid_on, caller, tried>>
    /\ UNCHANGED <<idle_wh, xid_on, media_files, current_index, pipeline, bus, is_video, timeout_id,
                   attempts, cur_msg, handler, firing, sources, watches, idle_init,
                   mainloop, destroyed, pstate, pfile, busq, idx0, cmCalls, window>>

CleanupReturn == IF caller = "create" THEN "cp_build" ELSE "od_quit"

\* Variant: the pending timeout is not cancelled.
CleanupTimer_NoCancel ==
    /\ pc = "cl_timer"
    /\ pc' = IF pipeline = 0 THEN CleanupReturn ELSE "cl_stop"
    /\ UNCHANGED <<idle_wh, xid_on, media_files, current_index, pipeline, bus, is_video, attempts,
                   cur_msg, caller, handler, firing, watches, idle_init, mainloop,
                   destroyed, pstate, pfile, busq, idx0, cmCalls, tried, window,
                   sources, timeout_id>>

\* cleanup_pipeline: if self.pipeline: cancel any pending timeout.
CleanupTimer ==
    /\ pc = "cl_timer"
    /\ IF pipeline = 0
       THEN /\ pc' = CleanupReturn
            /\ UNCHANGED <<idle_wh, xid_on, sources, timeout_id>>
       ELSE /\ pc' = "cl_stop"
            /\ IF timeout_id # 0
               THEN /\ sources' = RemoveSource(sources, timeout_id)
                    /\ timeout_id' = 0
               ELSE UNCHANGED <<idle_wh, xid_on, sources, timeout_id>>
    /\ UNCHANGED <<idle_wh, xid_on, media_files, current_index, pipeline, bus, is_video, attempts,
                   cur_msg, caller, handler, firing, watches, idle_init, mainloop,
                   destroyed, pstate, pfile, busq, idx0, cmCalls, tried, window>>

\* cleanup_pipeline: self.pipeline.set_state(Gst.State.NULL).
CleanupStop ==
    /\ pc = "cl_stop"
    /\ pstate' = [pstate EXCEPT ![pipeline] = "NULL"]
    /\ pc' = "cl_unwatch"
    /\ UNCHANGED <<idle_wh, xid_on, media_files, current_index, pipeline, bus, is_video, timeout_id,
                   attempts, cur_msg, caller, handler, firing, sources, watches,
                   idle_init, mainloop, destroyed, pfile, busq, idx0, cmCalls, tried,
                   window>>

\* Variant: self.bus is cleared without remove_signal_watch().
CleanupUnwatch_KeepsWatch ==
    /\ pc = "cl_unwatch"
    /\ bus' = 0
    /\ pc' = "cl_release"
    /\ UNCHANGED <<idle_wh, xid_on, media_files, current_index, pipeline, is_video, timeout_id,
                   attempts, cur_msg, caller, handler, firing, sources, idle_init,
                   mainloop, destroyed, pstate, pfile, busq, idx0, cmCalls, tried,
                   window, watches>>

\* cleanup_pipeline: if self.bus: remove_signal_watch(); self.bus = None.
CleanupUnwatch ==
    /\ pc = "cl_unwatch"
    /\ IF bus # 0
       THEN /\ watches' = watches \ {bus}
            /\ bus' = 0
       ELSE UNCHANGED <<idle_wh, xid_on, watches, bus>>
    /\ pc' = "cl_release"
    /\ UNCHANGED <<idle_wh, xid_on, media_files, current_index, pipeline, is_video, timeout_id,
                   attempts, cur_msg, caller, handler, firing, sources, idle_init,
                   mainloop, destroyed, pstate, pfile, busq, idx0, cmCalls, tried,
                   window>>

\* Variant: the pipeline is stopped and unsubscribed but self.pipeline is not cleared.
CleanupRelease_KeepsPipeline ==
    /\ pc = "cl_release"
    /\ pc' = CleanupReturn
    /\ UNCHANGED <<idle_wh, xid_on, media_files, current_index, bus, is_video, timeout_id, attempts,
                   cur_msg, caller, handler, firing, sources, watches, idle_init,
                   mainloop, destroyed, pfile, idx0, cmCalls, tried, window, pstate,
                   busq, pipeline>>

\* cleanup_pipeline: get_state(CLOCK_TIME_NONE); self.pipeline = None.  The last
\* reference goes: the pipeline object is freed, and with it its bus and the
\* messages queued there, unless a signal watch still holds the bus.  A pending
\* set_window_handle callback keeps its message, whose source is no longer a
\* pipeline of the session.
CleanupRelease ==
    /\ pc = "cl_release"
    /\ pstate' = [pstate EXCEPT ![pipeline] = "FREE"]
    /\ busq' = IF pipeline \in watches THEN busq ELSE {m \in busq : m.pid # pipeline}
    /\ idle_wh' = IF pipeline \in idle_wh THEN (idle_wh \ {pipeline}) \cup {0} ELSE idle_wh
    /\ xid_on' = xid_on \ {pipeline}
    /\ pipeline' = 0
    /\ pc' = CleanupReturn
    /\ UNCHANGED <<media_files, current_index, bus, is_video, timeout_id, attempts,
                   cur_msg, caller, handler, firing, sources, watches, idle_init,
                   mainloop, destroyed, pfile, idx0, cmCalls, tried, window>>

\* create_pipeline after cleanup: self.is_video is set, then the pipeline is built.
\* A build failure is playbin being None (self.pipeline = None; return False) for a
\* video, and parse_launch raising (except: return False) for an image.
PipelineBuild ==
    /\ pc = "cp_build"
    /\ LET item == media_files[current_index + 1] IN
        /\ is_video' = is_video_file(item)
        /\ IF item.beh = "build_fail"
           THEN /\ pipeline' = IF is_video_file(item) THEN 0 ELSE pipeline
                /\ pc' = "failed"
                /\ UNCHANGED <<idle_wh, xid_on, pstate, pfile>>
           ELSE /\ FreeIds # {}
                /\ pipeline' = FreshId
                /\ pstate' = [pstate EXCEPT ![FreshId] = "READY"]
                /\ pfile' = [pfile EXCEPT ![FreshId] = current_index]
                /\ pc' = "cp_bus"
    /\ UNCHANGED <<idle_wh, xid_on, media_files, current_index, bus, timeout_id, attempts, cur_msg,
                   caller, handler, firing, sources, watches, idle_init, mainloop,
                   destroyed, busq, idx0, cmCalls, tried, window>>

\* create_pipeline: self.bus = get_bus(); add_signal_watch(); connect the handlers.
PipelineBus ==
    /\ pc = "cp_bus"
    /\ bus' = pipeline
    /\ watches' = watches \cup {pipeline}
    /\ pc' = "cp_play"
    /\ UNCHANGED <<idle_wh, xid_on, media_files, current_index, pipeline, is_video, timeout_id,
                   attempts, cur_msg, caller, handler, firing, sources, idle_init,
                   mainloop, destroyed, pstate, pfile, busq, idx0, cmCalls, tried,
                   window>>

\* Variant: the advance timer is armed for videos as well.
PipelinePlay_AlwaysTimer ==
    /\ pc = "cp_play"
    /\ IF media_files[current_index + 1].beh = "start_fail"
       THEN /\ pstate' = [pstate EXCEPT ![pipeline] = "FAILED"]
            /\ pc' = "failed"
            /\ UNCHANGED <<timeout_id, sources>>
       ELSE /\ pstate' = [pstate EXCEPT ![pipeline] = "PLAYING"]
            /\ pc' = "lcm_end"
            /\ timeout_id' = pipeline
            /\ sources' = sources \cup {[id |-> pipeline, secs |-> image_interval]}
    /\ UNCHANGED <<idle_wh, xid_on, media_files, current_index, pipeline, bus, is_video,
                   attempts, cur_msg, caller, handler, firing, watches, idle_init,
                   mainloop, destroyed, pfile, busq, idx0, cmCalls, tried, window>>

\* create_pipeline: ret = set_state(PLAYING).  FAILURE returns False as it stands;
\* otherwise an image arms the advance timer, and True is returned (the loop breaks).
PipelinePlay ==
    /\ pc = "cp_play"
    /\ IF media_files[current_index + 1].beh = "start_fail"
       THEN /\ pstate' = [pstate EXCEPT ![pipeline] = "FAILED"]
            /\ pc' = "failed"
            /\ UNCHANGED <<idle_wh, xid_on, timeout_id, sources>>
       ELSE /\ pstate' = [pstate EXCEPT ![pipeline] = "PLAYING"]
            /\ pc' = "lcm_end"
            /\ IF ~is_video
               THEN /\ timeout_id' = pipeline
                    /\ sources' = sources \cup {[id |-> pipeline, secs |-> image_interval]}
               ELSE UNCHANGED <<idle_wh, xid_on, timeout_id, sources>>
    /\ UNCHANGED <<idle_wh, xid_on, media_files, current_index, pipeline, bus, is_video, attempts,
                   cur_msg, caller, handler, firing, watches, idle_init, mainloop,
                   destroyed, pfile, busq, idx0, cmCalls, tried, window>>

\* load_current_media: create_pipeline returned False: next index, attempts += 1.
LoadFailed ==
    /\ pc = "failed"
    /\ current_index' = (current_index + 1) % N
    /\ attempts' = attempts + 1
    /\ pc' = "loop"
    /\ UNCHANGED <<idle_wh, xid_on, media_files, pipeline, bus, is_video, timeout_id, cur_msg, caller,
                   handler, firing, sources, watches, idle_init, mainloop, destroyed,
                   pstate, pfile, busq, idx0, cmCalls, tried, window>>

AfterLoad == IF handler = "init" THEN "ret" ELSE "cm_end"

\* Variant: the exhaustion test is attempts > len.
LoadEnd_Strict ==
    /\ pc = "lcm_end"
    /\ pc' = IF attempts > N /\ ~destroyed THEN "od_timer" ELSE AfterLoad
    /\ UNCHANGED <<idle_wh, xid_on, media_files, current_index, pipeline, bus, is_video, timeout_id,
                   attempts, cur_msg, caller, handler, firing, sources, watches,
                   idle_init, mainloop, destroyed, pstate, pfile, busq, idx0, cmCalls,
                   tried, window>>

\* load_current_media: if attempts >= len(self.media_files): self.destroy().
LoadEnd ==
    /\ pc = "lcm_end"
    /\ pc' = IF attempts >= N /\ ~destroyed THEN "od_timer" ELSE AfterLoad
    /\ UNCHANGED <<idle_wh, xid_on, media_files, current_index, pipeline, bus, is_video, timeout_id,
                   attempts, cur_msg, caller, handler, firing, sources, watches,
                   idle_init, mainloop, destroyed, pstate, pfile, busq, idx0, cmCalls,
                   tried, window>>

\* Variant: on_destroy quits without cleanup_pipeline().
DestroyTimer_NoCleanup ==
    /\ pc = "od_timer"
    /\ sources' = IF timeout_id # 0 THEN RemoveSource(sources, timeout_id) ELSE sources
    /\ caller' = "destroy"
    /\ pc' = "od_quit"
    /\ UNCHANGED <<idle_wh, xid_on, media_files, current_index, pipeline, bus, is_video,
                   timeout_id, attempts, cur_msg, handler, firing, watches, idle_init,
                   mainloop, destroyed, pstate, pfile, busq, idx0, cmCalls, tried, window>>

\* on_destroy: if self.timeout_id: source_remove (the handle is kept); then
\* cleanup_pipeline().
DestroyTimer ==
    /\ pc = "od_timer"
    /\ sources' = IF timeout_id # 0 THEN RemoveSource(sources, timeout_id) ELSE sources
    /\ caller' = "destroy"
    /\ pc' = "cl_timer"
    /\ UNCHANGED <<idle_wh, xid_on, media_files, current_index, pipeline, bus, is_video, timeout_id,
                   attempts, cur_msg, handler, firing, watches, idle_init, mainloop,
                   destroyed, pstate, pfile, busq, idx0, cmCalls, tried, window>>

\* on_destroy: Gtk.main_quit(), which ends a running main loop and does nothing
\* when no loop runs yet.  Control then returns to whoever called self.destroy().
DestroyQuit ==
    /\ pc = "od_quit"
    /\ mainloop' = IF mainloop = "running" THEN "quit" ELSE mainloop
    /\ destroyed' = TRUE
    /\ pc' = IF handler \in {"close", "ctor"} THEN "ret" ELSE AfterLoad
    /\ UNCHANGED <<idle_wh, xid_on, media_files, current_index, pipeline, bus, is_video, timeout_id,
                   attempts, cur_msg, caller, handler, firing, sources, watches,
                   idle_init, pstate, pfile, busq, idx0, cmCalls, tried, window>>

\* The callback returns to its caller: the constructor to main, a handler to the
\* main loop.  A timer callback returned False, so its source is removed; a main
\* loop that was quit ends.
Return ==
    /\ pc = "ret"
    /\ sources' = IF firing # 0 THEN RemoveSource(sources, firing) ELSE sources
    /\ firing' = 0
    /\ handler' = "none"
    /\ cur_msg' = NoMsg
    /\ pc' = IF handler = "ctor" THEN "main"
             ELSE IF mainloop = "quit" THEN "exited" ELSE "idle"
    /\ UNCHANGED <<idle_wh, xid_on, media_files, current_index, pipeline, bus, is_video, timeout_id,
                   attempts, caller, watches, idle_init, mainloop, destroyed, pstate,
                   pfile, busq, idx0, cmCalls, tried, window>>

----
\* Streaming threads of the media engine.

\* A pipeline whose file cannot be played posts an error: while it plays, or after
\* its start has failed.
PostError(p) ==
    /\ \/ pstate[p] \in {"PLAYING", "PAUSED"} /\ media_files[pfile[p] + 1].beh = "play_err"
       \/ pstate[p] = "FAILED"
    /\ [pid |-> p, type |-> "error"] \notin busq
    /\ busq' = busq \cup {[pid |-> p, type |-> "error"]}
    /\ UNCHANGED <<idle_wh, xid_on, media_files, current_index, pipeline, bus, is_video, timeout_id,
                   attempts, cur_msg, pc, caller, handler, firing, sources, watches,
                   idle_init, mainloop, destroyed, pstate, pfile, idx0, cmCalls, tried,
                   window>>

\* A playing pipeline reaches the end of its stream.
PostEos(p) ==
    /\ pstate[p] = "PLAYING"
    /\ [pid |-> p, type |-> "eos"] \notin busq
    /\ busq' = busq \cup {[pid |-> p, type |-> "eos"]}
    /\ UNCHANGED <<idle_wh, xid_on, media_files, current_index, pipeline, bus, is_video, timeout_id,
                   attempts, cur_msg, pc, caller, handler, firing, sources, watches,
                   idle_init, mainloop, destroyed, pstate, pfile, idx0, cmCalls, tried,
                   window>>

\* A queue of a pipeline runs low, or fills up: a buffering message.
PostBuffering(p, pct) ==
    /\ pstate[p] \in {"PLAYING", "PAUSED"}
    /\ \A m \in busq : ~(m.pid = p /\ m.type = "buffering")
    /\ busq' = busq \cup {[pid |-> p, type |-> "buffering", percent |-> pct]}
    /\ UNCHANGED <<idle_wh, xid_on, media_files, current_index, pipeline, bus, is_video,
                   timeout_id, attempts, cur_msg, pc, caller, handler, firing, sources,
                   watches, idle_init, mainloop, destroyed, pstate, pfile, idx0, cmCalls,
                   tried, window>>

\* on_sync_message, run by the streaming thread whose sink asks for a window
\* (prepare-window-handle): GLib.idle_add(self.set_window_handle, message).
on_sync_message(p) ==
    /\ pstate[p] \in {"PLAYING", "PAUSED"}
    /\ p \notin xid_on
    /\ p \notin idle_wh
    /\ idle_wh' = idle_wh \cup {p}
    /\ UNCHANGED <<xid_on, media_files, current_index, pipeline, bus, is_video,
                   timeout_id, attempts, cur_msg, pc, caller, handler, firing, sources,
                   watches, idle_init, mainloop, destroyed, pstate, pfile, busq, idx0,
                   cmCalls, tried, window>>

\* What the main loop can dispatch when it is idle.
Dispatch ==
    \/ InitializeMedia
    \/ TimerFire
    \/ DispatchMessage
    \/ KeyPressEscape

\* The code of the constructor, of main and of the handler being run.
Running ==
    \/ Construct
    \/ GtkMain
    \/ on_error
    \/ on_eos
    \/ change_media
    \/ change_media_end
    \/ load_current_media
    \/ LoopHead
    \/ CleanupTimer
    \/ CleanupStop
    \/ CleanupUnwatch
    \/ CleanupRelease
    \/ PipelineBuild
    \/ PipelineBus
    \/ PipelinePlay
    \/ LoadFailed
    \/ LoadEnd
    \/ DestroyTimer
    \/ DestroyQuit
    \/ Return

\* The messages that decide when the session advances.
Streaming == \E p \in Ids : PostError(p) \/ PostEos(p)

\* Buffering messages and window requests.
StreamingAux ==
    \E p \in Ids :
        \/ on_sync_message(p)
        \/ \E pct \in Percents : PostBuffering(p, pct)

Next == Dispatch \/ Running \/ Streaming

\* The session with the events that drive it: timer, error, end-of-stream, close.
Spec == Init /\ [][Next]_vars

NextFull ==
    \/ Next
    \/ StreamingAux
    \/ DispatchWindowHandle
    \/ on_message
    \/ set_window_handle

\* The session with buffering messages and window requests as well.
FullSpec == Init /\ [][NextFull]_vars

\* The code being run keeps running; the main loop dispatches what is pending (the
\* idle callback, an expired timer, a queued bus message); a broken file's pipeline
\* does post its error.  Nothing obliges the user to press Escape.
FairSpec ==
    /\ Spec
    /\ WF_vars(Running)
    /\ WF_vars(InitializeMedia)
    /\ WF_vars(TimerFire)
    /\ WF_vars(DispatchMessage)
    /\ \A p \in Ids : WF_vars(PostError(p))

----
\* Vocabulary of the properties.

Terminated == destroyed

Showing == pipeline # 0 /\ pstate[pipeline] = "PLAYING"

LoadsOk(item) == item.beh \in {"ok", "play_err"}

AllFail == N > 0 /\ \A i \in 1..N : ~LoadsOk(media_files[i])

AllLoadOk == N > 0 /\ \A i \in 1..N : LoadsOk(media_files[i])

NoPlayable == N > 0 /\ \A i \in 1..N : media_files[i].beh # "ok"

AllOk == N > 0 /\ \A i \in 1..N : media_files[i].beh = "ok"

\* The pipeline whose timer or message the running handler was dispatched for.
Trigger == IF handler = "timer" THEN firing ELSE cur_msg.pid

\* The item at index i is on screen and the main loop is waiting.
ShownAt(i) == pc = "idle" /\ pipeline # 0 /\ pstate[pipeline] = "PLAYING" /\ pfile[pipeline] = i

\* The index at which the pass of the running handler began: initialize_media
\* loads at the current index, change_media advances first.
PassStart == IF handler = "init" THEN idx0 ELSE (idx0 + 1) % N

\* load_current_media has left its loop by break: create_pipeline returned True.
LoadSucceeded == pc = "lcm_end" /\ attempts < N

----
\* C1: at most one pipeline object exists at any time, it is the one self.pipeline
\* holds, and at the point where create_pipeline builds a new pipeline the previous
\* one has been stopped, unsubscribed and released.
C1_OnePipelineAlive ==
    /\ Cardinality(Alive) <= 1
    /\ Alive \subseteq {pipeline}
    /\ pc = "cp_build" => Alive = {} /\ watches = {} /\ pipeline = 0 /\ bus = 0

\* A timer callback is about to build the next pipeline: the image shown before
\* has been torn down.
C1_Witness == pc = "cp_build" /\ handler = "timer" /\ attempts = 0

\* C2: in a catalog where no item loads, one pass of load_current_media tries at
\* most len(media_files) indexes, consecutive modulo the length from the index
\* where the pass began and so all distinct; when the pass is over the window is
\* destroyed, and once it is destroyed no further attempt is made.
C2_AllFailBounded ==
    /\ Len(tried) <= N
    /\ \A k \in 1..Len(tried) : tried[k] = (tried[1] + k - 1) % N
    /\ \A j, k \in 1..Len(tried) : tried[j] = tried[k] => j = k
    /\ pc = "failed" => tried[1] = PassStart /\ Len(tried) = attempts + 1
    /\ AllFail =>
        /\ (tried # <<>> /\ pc \in {"ret", "idle", "exited"})
               => Terminated /\ Len(tried) = N
        /\ Terminated => pc \notin {"lcm", "loop", "cp_build", "cp_bus", "cp_play", "failed"}

\* A catalog of two or more items, none of which loads, has been tried through
\* and the window destroyed.
C2_Witness == AllFail /\ N >= 2 /\ Terminated /\ Len(tried) = N /\ pc = "ret"

\* C3: if no item is playable (each fails to load, or posts an error after it has
\* started), the session eventually terminates.
C3_NoPlayableTerminates == NoPlayable => <>Terminated

\* C4: the initial load started by initialize_media eventually ends, with a
\* pipeline playing or with the window destroyed.
C4_InitialLoadEnds ==
    (handler = "init" /\ pc = "lcm")
        ~> (handler = "init" /\ pc = "ret" /\ (Showing \/ Terminated))

\* The initial load has ended with a pipeline playing, after skipping a failed item.
C4_Witness == handler = "init" /\ pc = "ret" /\ Showing /\ attempts > 0

\* C5: when on_error has loaded the next pipeline, it plays another catalog item
\* than the one whose pipeline posted the error.
C5_ErrorSkipsItem ==
    (handler = "error" /\ pc = "cm_end" /\ Showing) => current_index # idx0

\* C6: at most one advance timer is armed in any state, and when an image has just
\* been loaded the one armed timer is the stored one, of image_interval seconds.
C6_SingleTimer ==
    /\ Cardinality(sources) <= 1
    /\ (LoadSucceeded /\ ~is_video)
           => /\ timeout_id # 0
              /\ sources = {[id |-> timeout_id, secs |-> image_interval]}

\* An image has been loaded by on_error, run for an image whose timer was armed.
C6_Witness ==
    /\ LoadSucceeded
    /\ ~is_video
    /\ handler = "error"
    /\ ~is_video_file(media_files[idx0 + 1])

\* C7: the handling of an end-of-stream of a video calls change_media exactly once:
\* when on_eos returns, current_index is one step, plus one per failed load, past
\* the index it had at dispatch.
C7_EosAdvancesOnce ==
    (handler = "eos" /\ is_video_file(media_files[idx0 + 1]))
        => /\ cmCalls <= 1
           /\ pc = "ret" => /\ cmCalls = 1
                            /\ current_index = (idx0 + 1 + attempts) % N

\* on_eos of a video returns after a change_media that skipped a failed load.
C7_Witness ==
    /\ handler = "eos"
    /\ pc = "ret"
    /\ is_video_file(media_files[idx0 + 1])
    /\ attempts > 0
    /\ Showing

\* C8: on_error and on_eos are entered only with a message of the pipeline that
\* self.pipeline holds, and that pipeline has not been stopped.
C8_NoStaleEvent ==
    pc \in {"on_error", "on_eos"}
        => /\ cur_msg.pid = pipeline
           /\ pstate[pipeline] \notin {"FREE", "NULL"}

\* on_eos runs for the live pipeline while an error of the same pipeline is still
\* queued: the teardown to come leaves that message behind.
C8_Witness ==
    /\ pc = "on_eos"
    /\ is_video
    /\ cur_msg.pid = pipeline
    /\ [pid |-> pipeline, type |-> "error"] \in busq

\* C9: when create_pipeline returns False because set_state(PLAYING) failed, no
\* pipeline is held and no bus subscription is active.
C9_StartFailureReleases ==
    (pc = "failed" /\ media_files[current_index + 1].beh = "start_fail")
        => pipeline = 0 /\ bus = 0 /\ watches = {} /\ Alive = {}

\* C10: current_index stays within the catalog, and when every item loads, the
\* index after len(media_files) consecutive change_media calls is the index
\* before them.
C10_WrapAround ==
    /\ N > 0 => current_index \in 0..(N - 1)
    /\ (AllLoadOk /\ Len(window) = N + 1) => window[N + 1] = window[1]

\* A full lap over two or more items that began at an index other than 0.
C10_Witness == AllLoadOk /\ N >= 2 /\ Len(window) = N + 1 /\ window[1] # 0

\* C11: when every item plays, the first load is of index 0 and every later load
\* is of the index after the one shown (wrapping); change_media is entered from
\* the timer if an image was shown and from on_eos if a video was shown; an
\* end-of-stream handled while an image is shown changes nothing.
C11_OrderAndTriggers ==
    AllOk =>
        /\ pc = "cp_build" => current_index = PassStart
        /\ (pc = "cp_build" /\ handler = "init") => current_index = 0
        /\ (pc = "idle" /\ pipeline # 0) => pfile[pipeline] = current_index
        /\ pc = "cm" => IF is_video_file(media_files[idx0 + 1])
                        THEN handler = "eos"
                        ELSE handler = "timer"
        /\ (handler = "eos" /\ ~is_video_file(media_files[idx0 + 1]))
               => /\ pc \in {"on_eos", "ret"}
                  /\ current_index = idx0
                  /\ cmCalls = 0
                  /\ Showing

\* An end-of-stream has been handled while an image of a longer catalog is shown.
C11_Witness ==
    /\ AllOk
    /\ N >= 2
    /\ handler = "eos"
    /\ pc = "ret"
    /\ ~is_video_file(media_files[idx0 + 1])

\* C12: when a pass of change_media succeeds after k failed loads, k + 1 indexes
\* have been tried, the item at (i + 1 + k) mod len is playing, i being the index
\* before the call; and every pass enters its loop with the counter at 0.
C12_RetryWithinCall ==
    /\ (pc = "loop" /\ tried = <<>>) => attempts = 0
    /\ (handler \in {"timer", "error", "eos"} /\ LoadSucceeded)
           => /\ Len(tried) = attempts + 1
              /\ current_index = (idx0 + 1 + attempts) % N
              /\ Showing
              /\ pfile[pipeline] = current_index

\* change_media, called by the timer, has skipped a failed load and succeeded.
C12_Witness == handler = "timer" /\ LoadSucceeded /\ attempts > 0

\* C13: when on_destroy reaches Gtk.main_quit() no pipeline is left, no bus
\* watch and no armed timer; and once the window is destroyed the index, the
\* pipeline and the tried indexes do not change and no timer is armed.
C13_TerminatedIsFinal ==
    /\ [](pc = "od_quit" => pipeline = 0 /\ Alive = {} /\ watches = {} /\ sources = {})
    /\ [][destroyed => /\ current_index' = current_index
                       /\ pipeline' = pipeline
                       /\ pstate' = pstate
                       /\ tried' = tried
                       /\ sources' \subseteq sources]_vars

\* The window has been closed by the user while an image was shown.
C13_Witness ==
    /\ destroyed
    /\ handler = "close"
    /\ pc = "ret"
    /\ tried # <<>>
    /\ ~is_video
    /\ LoadsOk(media_files[current_index + 1])

\* C14: with an empty catalog the program eventually leaves its main loop.
C14_EmptyCatalogExits == (N = 0) => <>(Terminated /\ pc = "exited")

\* C15 as stated: once cleanup_pipeline has got past its first action, the bus
\* subscription has been cancelled.
C15_UnsubscribeFirst ==
    pc \in {"cl_stop", "cl_unwatch"} => bus = 0 /\ pipeline \notin watches

\* C15: the subscription is cancelled after the pending timer has been cancelled
\* and the pipeline set to NULL, and before the pipeline is released.
C15_UnsubscribeBeforeRelease ==
    /\ pc = "cl_unwatch" => pstate[pipeline] = "NULL" /\ timeout_id = 0
    /\ pc = "cl_release" => bus = 0 /\ watches = {} /\ pstate[pipeline] = "NULL"

\* The pipeline of a finished video is about to be released.
C15_Witness == pc = "cl_release" /\ handler = "eos" /\ caller = "create"

\* C16: an armed advance timer implies that self.pipeline exists and plays an
\* image; while a video is playing no advance timer is armed or stored.
C16_TimerOnlyForImage ==
    /\ sources # {}
           => /\ pipeline # 0
              /\ pstate[pipeline] # "FREE"
              /\ ~is_video_file(media_files[pfile[pipeline] + 1])
    /\ (pipeline # 0 /\ pstate[pipeline] \in {"PLAYING", "PAUSED"}
            /\ is_video_file(media_files[pfile[pipeline] + 1]))
           => sources = {} /\ timeout_id = 0

\* A video has been loaded by the timer callback of the image before it.
C16_Witness == LoadSucceeded /\ is_video /\ handler = "timer"

\* C17: the handling of a buffering message is for the live pipeline; it ends
\* with that pipeline PAUSED if the percentage is below 100 and PLAYING if it is
\* 100, and changes neither the index, the timer nor self.pipeline, and never
\* enters change_media.
C17_BufferingOnlyPauses ==
    /\ [](handler = "buffering"
             => /\ pc \in {"on_message", "ret"}
                /\ cmCalls = 0
                /\ cur_msg.pid = pipeline)
    /\ [][pc = "on_message"
             => /\ current_index' = current_index
                /\ sources' = sources
                /\ timeout_id' = timeout_id
                /\ pipeline' = pipeline
                /\ pc' = "ret"
                      => pstate'[pipeline] =
                            IF cur_msg.percent < 100 THEN "PAUSED" ELSE "PLAYING"]_vars

\* A buffering message below 100 has paused an image whose timer is armed.
C17_Witness ==
    /\ handler = "buffering"
    /\ pc = "ret"
    /\ pstate[pipeline] = "PAUSED"
    /\ sources # {}

\* C18: if every item plays, the user never closes the window, every armed timer
\* fires and every video shown reaches its end-of-stream handler, then the
\* window is never destroyed and every item is shown again and again.
C18_LoopsForever ==
    (/\ AllOk
     /\ [](handler # "close")
     /\ [](sources # {} => <>(handler = "timer"))
     /\ []((Showing /\ is_video) => <>(handler = "eos")))
        => /\ []~Terminated
           /\ \A i \in 0..(MaxItems - 1) : i < N => []<>ShownAt(i)

\* The first item is on screen again after a lap over two or more items.
C18_Witness == AllOk /\ N >= 2 /\ Len(window) = N + 1 /\ ShownAt(0)

\* C19: a handler calls change_media at most once, for a pipeline that is live
\* and playing; when change_media returns, that pipeline has been released and
\* neither its timer nor any of its messages nor its bus watch is left.
C19_OneAdvancePerPipeline ==
    /\ cmCalls <= 1
    /\ pc = "cm" => /\ pipeline # 0
                    /\ Trigger = pipeline
                    /\ pstate[pipeline] \in {"PLAYING", "PAUSED"}
    /\ pc = "cm_end" => /\ pstate[Trigger] = "FREE"
                        /\ Trigger \notin watches
                        /\ \A m \in busq : m.pid # Trigger
                        /\ \A t \in sources : t.id # Trigger

\* on_error advances an image while its timer is armed and its end-of-stream queued.
C19_Witness ==
    /\ pc = "cm"
    /\ handler = "error"
    /\ sources # {}
    /\ [pid |-> pipeline, type |-> "eos"] \in busq

\* C20: set_window_handle runs only for a message of the pipeline that is live,
\* and not after the window has been destroyed.
C20_WindowHandleOnlyLive ==
    pc = "swh" => cur_msg.pid = pipeline /\ pipeline # 0 /\ ~destroyed

\* C21: whenever on_destroy or cleanup_pipeline is about to cancel the stored
\* timer handle, the timer of that handle is still armed (it has not been
\* cancelled before).
C21_CancelOnlyArmed ==
    ((pc = "od_timer" \/ (pc = "cl_timer" /\ pipeline # 0)) /\ timeout_id # 0)
        => \E s \in sources : s.id = timeout_id

====
